---- MODULE Spec2Model ----
(***************************************************************************)
(* Barcode / character region detector of src/src/lib.rs.                  *)
(*                                                                         *)
(* The pipeline detect_character_regions -> detect_barcode_regions is a    *)
(* state machine over pc:                                                  *)
(*   "from_vec" -> "strips" -> "merge_rows" -> "merge_y" -> "returned"     *)
(*             -> "done"      (or "panicked" from any step that panics).   *)
(* "returned" is the state in which detect_barcode_regions has returned    *)
(* its vector to detect_character_regions; "done" is the state after       *)
(* adjust_regions.                                                         *)
(*                                                                         *)
(* SpecRun, SpecMerge, SpecMergeY, SpecMergeAny and SpecFilter enter the   *)
(* same code at detect_regions, at the merge passes and at                 *)
(* contains_large_white_black_regions, on any argument within the bounds.  *)
(***************************************************************************)
EXTENDS Integers, Sequences, FiniteSets, TLC

VARIABLES pc, width, height, pixels_len, img, section_index_y,
          section_magnitudes, candidates, barcode_regions, returned,
          filter_line, filter_max_width, rejected

vars == <<pc, width, height, pixels_len, img, section_index_y,
          section_magnitudes, candidates, barcode_regions, returned,
          filter_line, filter_max_width, rejected>>

\* the argument and the result of a call of
\* contains_large_white_black_regions followed on its own
filterVars == <<filter_line, filter_max_width, rejected>>

(* ---------------- program constants, lib.rs:21-26 ---------------------- *)
VERTICAL_SECTIONS == 60
HORIZONTAL_SECTIONS == 100
SECTION_HEIGHT == 5
THRESHOLD == 50
CONSECUTIVE_THRESHOLD == 5
MAX_WHITE_BLACK_WIDTH == 10

(* ---------------- bounds of the model ---------------------------------- *)
\* strips of the tallest images explored
MaxStrips == 3

(* ---------------- helpers ---------------------------------------------- *)
Min(a, b) == IF a <= b THEN a ELSE b
Max(a, b) == IF a >= b THEN a ELSE b

\* struct BarcodeRegion
BarcodeRegion(xs, xe, ys, ye) ==
    [x_start |-> xs, x_end |-> xe, y_start |-> ys, y_end |-> ye]

(* ---------------- the image -------------------------------------------- *)
\* The pixel buffer is given by its content function.  im.bg is the
\* background intensity; im.bands[s] describes what strip s (rows
\* s*SECTION_HEIGHT .. s*SECTION_HEIGHT+4) holds: between columns x0
\* (inclusive) and x1 (exclusive), except the columns g0 .. g1-1, vertical
\* bars `period` pixels wide alternating 0 / 255.  x0 = x1 is a strip with no
\* bars.  Any such function is a pixel buffer the caller can pass.
NoBand == [x0 |-> 0, x1 |-> 0, g0 |-> 0, g1 |-> 0, period |-> 1]

BandAt(im, y) ==
    IF (y \div SECTION_HEIGHT) \in DOMAIN im.bands
    THEN im.bands[y \div SECTION_HEIGHT] ELSE NoBand

BarAt(b, bg, x) ==
    IF b.x0 <= x /\ x < b.x1 /\ ~(b.g0 <= x /\ x < b.g1)
    THEN IF ((x - b.x0) \div b.period) % 2 = 0 THEN 0 ELSE 255
    ELSE bg

Pixel(im, x, y) == BarAt(BandAt(im, y), im.bg, x)

(* ---------------- grid geometry, lib.rs:55-62 -------------------------- *)
is_ratio(w, h) == w <= h

sections_per_width(w, h) ==
    IF is_ratio(w, h) THEN VERTICAL_SECTIONS ELSE HORIZONTAL_SECTIONS

section_width(w, h) == w \div sections_per_width(w, h)

\* the strip loop running over 0..=sections_per_height
sections_per_heightInclusive(h) == h \div SECTION_HEIGHT + 1

\* the strip count rounded up: a trailing short strip iterated too
sections_per_heightRoundUp(h) ==
    (h + SECTION_HEIGHT - 1) \div SECTION_HEIGHT

sections_per_height(h) == h \div SECTION_HEIGHT

(* ---------------- scanline sampling, lib.rs:153-162 -------------------- *)
\* img.get_pixel(x, y) panics unless x < width and y < height.  The reads of
\* one strip are the columns 0 .. sections_per_width*section_width - 1 of
\* row section_y_start + SECTION_HEIGHT / 2.
ReadsInBounds(w, h, section_y_start) ==
    /\ sections_per_width(w, h) * section_width(w, h) <= w
    /\ section_y_start + SECTION_HEIGHT \div 2 < h

\* BinaryLine reading get_pixel(x, ..) instead of
\* get_pixel(section_x_start + x, ..): every cell samples the first one
BinaryLineFirstCell(im, section_x_start, section_y_start, sw) ==
    LET b == BandAt(im, section_y_start + SECTION_HEIGHT \div 2)
        bg == im.bg
    IN [x \in 1..sw |->
        IF BarAt(b, bg, x - 1) > 128
        THEN 1 ELSE 0]

\* section_line binarized: 1.0 if pixel > 128, else 0.0
BinaryLine(im, section_x_start, section_y_start, sw) ==
    LET b == BandAt(im, section_y_start + SECTION_HEIGHT \div 2)
        bg == im.bg
    IN [x \in 1..sw |->
        IF BarAt(b, bg, section_x_start + (x - 1)) > 128
        THEN 1 ELSE 0]

(* ---------------- contains_large_white_black_regions, lib.rs:222-239 --- *)
\* One iteration of the for loop.  st.ret records the early `return true`.
RunStep(st, value, max_width) ==
    IF st.ret THEN st
    ELSE IF value = st.current_value THEN [st EXCEPT !.count = @ + 1]
    ELSE IF st.count > max_width THEN [st EXCEPT !.ret = TRUE]
    ELSE [count |-> 1, current_value |-> value, ret |-> FALSE]

\* The loop over binary_line[lo..hi], left to right.  The range is folded in
\* two halves; the test of the left half's result (the early return) makes
\* the left half be evaluated before the right one.
RECURSIVE RunFold(_, _, _, _, _)
RunFold(binary_line, lo, hi, st, max_width) ==
    IF lo > hi THEN st
    ELSE IF lo = hi THEN RunStep(st, binary_line[lo], max_width)
    ELSE LET mid == (lo + hi) \div 2
             left == RunFold(binary_line, lo, mid, st, max_width)
         IN IF left.ret THEN left
            ELSE RunFold(binary_line, mid + 1, hi, left, max_width)

\* contains_large_white_black_regions ending with `false`: the run that
\* reaches the end of the line is not looked at
contains_large_white_black_regionsNoTail(binary_line, max_width) ==
    RunFold(binary_line, 1, Len(binary_line),
            [count |-> 0, current_value |-> binary_line[1], ret |-> FALSE],
            max_width).ret

\* Defined for a non-empty line only: binary_line[0] panics on an empty one.
contains_large_white_black_regions(binary_line, max_width) ==
    LET fin == RunFold(binary_line, 1, Len(binary_line),
                       [count |-> 0, current_value |-> binary_line[1],
                        ret |-> FALSE], max_width)
    IN fin.ret \/ fin.count > max_width

(* ---------------- frequency feature, lib.rs:170-188 -------------------- *)
\* The forward DFT X of the binary line x of length L, with S ones:
\*   |X_0| = S,   sum over k >= 1 of |X_k|^2 = L*S - S^2   (Parseval),
\*   for even L, |X_(L/2)| = | sum (-1)^n x_n |.
\* section_magnitude M is the sum over k >= 1 of |X_k|, so
\*   M >= sqrt(L*S - S^2)                          and, with A = |X_(L/2)|
\*   (A = 0 for odd L) and K the number of the other coefficients k >= 1,
\*   M <= A + sqrt(K * (L*S - S^2 - A^2)).
\* The integers below decide M > THRESHOLD with a margin of 0.01, far above
\* the rounding error of an f32 transform of these lengths; where they do
\* not decide it, both outcomes are possible.
Ones(binary_line) ==
    Cardinality({k \in 1..Len(binary_line) : binary_line[k] = 1})

AltSum(binary_line) ==
    LET odd == Cardinality({k \in 1..Len(binary_line) :
                              binary_line[k] = 1 /\ k % 2 = 1})
        even == Cardinality({k \in 1..Len(binary_line) :
                              binary_line[k] = 1 /\ k % 2 = 0})
    IN IF odd >= even THEN odd - even ELSE even - odd

\* The values section_magnitudes.push can receive for this line: 0 stands
\* for 0.0 and 1 for a kept section_magnitude (> THRESHOLD).
MagnitudeOutcomes(binary_line) ==
    IF contains_large_white_black_regions(binary_line, MAX_WHITE_BLACK_WIDTH)
    THEN {0}
    ELSE LET L == Len(binary_line)
             S == Ones(binary_line)
             P == L * S - S * S
             A == IF L % 2 = 0 THEN AltSum(binary_line) ELSE 0
             K == IF L % 2 = 0 THEN L - 2 ELSE L - 1
         IN IF P > THRESHOLD * THRESHOLD THEN {1}
            ELSE IF A < THRESHOLD
                    /\ K * (P - A * A) < (THRESHOLD - A) * (THRESHOLD - A)
                 THEN {0}
            ELSE {0, 1}

\* The loop over the sections lo-1 .. hi-1 of one strip (lib.rs:152-189):
\* for each section in order, the binary line and what can be pushed for it.
RECURSIVE SectionOutcomes(_, _, _, _, _)
SectionOutcomes(im, section_y_start, sw, lo, hi) ==
    IF lo > hi THEN <<>>
    ELSE IF lo = hi
         THEN LET binary_line ==
                     BinaryLine(im, (lo - 1) * sw, section_y_start, sw)
                  pushed == MagnitudeOutcomes(binary_line)
              IN << [pushed |-> pushed,
                     line |-> IF pushed = {0, 1} THEN binary_line ELSE <<>>] >>
    ELSE LET mid == (lo + hi) \div 2 IN
         SectionOutcomes(im, section_y_start, sw, lo, mid)
           \o SectionOutcomes(im, section_y_start, sw, mid + 1, hi)

\* compute_section_magnitudes, lib.rs:143-192: the set of magnitude vectors
\* the strip at section_y_start can yield.  Equal lines get equal magnitudes
\* (the transform is deterministic); H is the set of undecided lines whose
\* magnitude exceeds THRESHOLD.
compute_section_magnitudes(im, section_y_start, sw, spw) ==
    LET outcomes == SectionOutcomes(im, section_y_start, sw, 1, spw)
        undecided == {outcomes[c].line :
                         c \in {d \in 1..spw : outcomes[d].pushed = {0, 1}}}
    IN { [c \in 1..spw |->
            IF outcomes[c].pushed = {1} THEN 1
            ELSE IF outcomes[c].pushed = {0} THEN 0
            ELSE IF outcomes[c].line \in H THEN 1 ELSE 0] : H \in SUBSET undecided }

(* ---------------- detect_regions, lib.rs:249-281 ----------------------- *)
\* DetectStep with x_end computed from end + 2 instead of end + 1
DetectStepEndOffByOne(st, section_index, magnitude, section_y_start, sw) ==
    IF magnitude > 0
    THEN LET start == IF st.consecutive_count = 0
                      THEN <<section_index>> ELSE st.start_index
             count == st.consecutive_count + 1
         IN [consecutive_count |-> count,
             start_index |-> start,
             out |-> IF count >= CONSECUTIVE_THRESHOLD /\ start # <<>>
                     THEN Append(st.out,
                            BarcodeRegion(start[1] * sw,
                                          (section_index + 2) * sw,
                                          section_y_start,
                                          section_y_start + SECTION_HEIGHT))
                     ELSE st.out]
    ELSE [consecutive_count |-> 0, start_index |-> <<>>, out |-> st.out]

\* DetectStep with `consecutive_count > CONSECUTIVE_THRESHOLD`
DetectStepStrictThreshold(st, section_index, magnitude, section_y_start, sw) ==
    IF magnitude > 0
    THEN LET start == IF st.consecutive_count = 0
                      THEN <<section_index>> ELSE st.start_index
             count == st.consecutive_count + 1
         IN [consecutive_count |-> count,
             start_index |-> start,
             out |-> IF count > CONSECUTIVE_THRESHOLD /\ start # <<>>
                     THEN Append(st.out,
                            BarcodeRegion(start[1] * sw,
                                          (section_index + 1) * sw,
                                          section_y_start,
                                          section_y_start + SECTION_HEIGHT))
                     ELSE st.out]
    ELSE [consecutive_count |-> 0, start_index |-> <<>>, out |-> st.out]

\* DetectStep with `magnitude >= 0.0`
DetectStepNonNegative(st, section_index, magnitude, section_y_start, sw) ==
    IF magnitude >= 0
    THEN LET start == IF st.consecutive_count = 0
                      THEN <<section_index>> ELSE st.start_index
             count == st.consecutive_count + 1
         IN [consecutive_count |-> count,
             start_index |-> start,
             out |-> IF count >= CONSECUTIVE_THRESHOLD /\ start # <<>>
                     THEN Append(st.out,
                            BarcodeRegion(start[1] * sw,
                                          (section_index + 1) * sw,
                                          section_y_start,
                                          section_y_start + SECTION_HEIGHT))
                     ELSE st.out]
    ELSE [consecutive_count |-> 0, start_index |-> <<>>, out |-> st.out]

\* One iteration of the loop over section_magnitudes.  start_index is <<>>
\* for None and <<s>> for Some(s); section_index counts from 0.
DetectStep(st, section_index, magnitude, section_y_start, sw) ==
    IF magnitude > 0
    THEN LET start == IF st.consecutive_count = 0
                      THEN <<section_index>> ELSE st.start_index
             count == st.consecutive_count + 1
         IN [consecutive_count |-> count,
             start_index |-> start,
             out |-> IF count >= CONSECUTIVE_THRESHOLD /\ start # <<>>
                     THEN Append(st.out,
                            BarcodeRegion(start[1] * sw,
                                          (section_index + 1) * sw,
                                          section_y_start,
                                          section_y_start + SECTION_HEIGHT))
                     ELSE st.out]
    ELSE [consecutive_count |-> 0, start_index |-> <<>>, out |-> st.out]

\* The loop over the cells lo..hi (1-based positions of section_magnitudes),
\* left to right, folded in two halves; the test of the left half's counter
\* only makes the left half be evaluated before the right one.
RECURSIVE DetectFold(_, _, _, _, _, _)
DetectFold(mags, lo, hi, st, section_y_start, sw) ==
    IF lo > hi THEN st
    ELSE IF lo = hi
         THEN DetectStep(st, lo - 1, mags[lo], section_y_start, sw)
    ELSE LET mid == (lo + hi) \div 2
             left == DetectFold(mags, lo, mid, st, section_y_start, sw)
         IN IF left.consecutive_count >= 0
            THEN DetectFold(mags, mid + 1, hi, left, section_y_start, sw)
            ELSE left

\* barcode_regions after detect_regions has pushed this strip's regions
detect_regions(mags, section_y_start, sw, regions) ==
    DetectFold(mags, 1, Len(mags),
               [consecutive_count |-> 0, start_index |-> <<>>,
                out |-> regions],
               section_y_start, sw).out

(* ---------------- sort_by (y_start, y_end), lib.rs:313, 375-379 -------- *)
KeyLess(a, b) ==
    \/ a.y_start < b.y_start
    \/ a.y_start = b.y_start /\ a.y_end < b.y_end

\* r goes after every element whose key is not greater: the sort is stable
RECURSIVE InsertByY(_, _)
InsertByY(sorted, r) ==
    IF sorted = <<>> THEN <<r>>
    ELSE IF KeyLess(r, sorted[Len(sorted)])
         THEN Append(InsertByY(SubSeq(sorted, 1, Len(sorted) - 1), r),
                     sorted[Len(sorted)])
         ELSE Append(sorted, r)

RECURSIVE SortPrefix(_, _)
SortPrefix(regions, k) ==
    IF k = 0 THEN <<>>
    ELSE InsertByY(SortPrefix(regions, k - 1), regions[k])

\* the vector left in arrival order
SortOmitted(regions) == regions

SortByY(regions) == SortPrefix(regions, Len(regions))

(* ---------------- merge_group, lib.rs:445-461 -------------------------- *)
SeqMin(s) == CHOOSE m \in {s[i] : i \in DOMAIN s} :
                \A i \in DOMAIN s : m <= s[i]
SeqMax(s) == CHOOSE m \in {s[i] : i \in DOMAIN s} :
                \A i \in DOMAIN s : m >= s[i]

\* merge_group taking x_end from the last region of the group
merge_groupLastEnd(group) ==
    BarcodeRegion(SeqMin([i \in DOMAIN group |-> group[i].x_start]),
                  group[Len(group)].x_end,
                  group[1].y_start,
                  group[Len(group)].y_end)

\* merge_group taking x_start from the first region of the group
merge_groupFirstStart(group) ==
    IF group = <<>>
    THEN BarcodeRegion(-1, -1, -1, -1)
    ELSE BarcodeRegion(group[1].x_start,
                       SeqMax([i \in DOMAIN group |-> group[i].x_end]),
                       group[1].y_start,
                       group[Len(group)].y_end)

\* what stands in a list for the panic of merge_group on an empty group
\* (lib.rs:446-448); no u32 y_start is negative
EmptyGroupPanic == BarcodeRegion(-1, -1, -1, -1)

\* the computation of the list ran into that panic
Panics(regions) == \E i \in DOMAIN regions : regions[i] = EmptyGroupPanic

merge_group(group) ==
    IF group = <<>>
    THEN EmptyGroupPanic
    ELSE BarcodeRegion(SeqMin([i \in DOMAIN group |-> group[i].x_start]),
                       SeqMax([i \in DOMAIN group |-> group[i].x_end]),
                       group[1].y_start,
                       group[Len(group)].y_end)

(* ---------------- merge_barcode_regions, lib.rs:311-341 ---------------- *)
\* MergeRowsLoop without the merge of the final group
RECURSIVE MergeRowsLoopNoFlush(_, _, _, _)
MergeRowsLoopNoFlush(sorted, k, merged_regions, current_group) ==
    IF k > Len(sorted)
    THEN merged_regions
    ELSE LET region == sorted[k] IN
         IF current_group = <<>>
         THEN MergeRowsLoopNoFlush(sorted, k + 1, merged_regions, <<region>>)
         ELSE LET first_region == current_group[1] IN
              IF region.y_start = first_region.y_start
                 /\ region.y_end = first_region.y_end
              THEN MergeRowsLoopNoFlush(sorted, k + 1, merged_regions,
                                        Append(current_group, region))
              ELSE MergeRowsLoopNoFlush(sorted, k + 1,
                                        Append(merged_regions,
                                               merge_group(current_group)),
                                        <<region>>)

\* MergeRowsLoop merging the final group without `if !current_group.is_empty()`
RECURSIVE MergeRowsLoopUnguardedFlush(_, _, _, _)
MergeRowsLoopUnguardedFlush(sorted, k, merged_regions, current_group) ==
    IF k > Len(sorted)
    THEN Append(merged_regions, merge_group(current_group))
    ELSE LET region == sorted[k] IN
         IF current_group = <<>>
         THEN MergeRowsLoopUnguardedFlush(sorted, k + 1, merged_regions,
                                          <<region>>)
         ELSE LET first_region == current_group[1] IN
              IF region.y_start = first_region.y_start
                 /\ region.y_end = first_region.y_end
              THEN MergeRowsLoopUnguardedFlush(sorted, k + 1, merged_regions,
                                               Append(current_group, region))
              ELSE MergeRowsLoopUnguardedFlush(sorted, k + 1,
                                               Append(merged_regions,
                                                      merge_group(current_group)),
                                               <<region>>)

\* the loop over the drained vector, from element k on
RECURSIVE MergeRowsLoop(_, _, _, _)
MergeRowsLoop(sorted, k, merged_regions, current_group) ==
    IF k > Len(sorted)
    THEN IF current_group # <<>>
         THEN Append(merged_regions, merge_group(current_group))
         ELSE merged_regions
    ELSE LET region == sorted[k] IN
         IF current_group = <<>>
         THEN MergeRowsLoop(sorted, k + 1, merged_regions, <<region>>)
         ELSE LET first_region == current_group[1] IN
              IF region.y_start = first_region.y_start
                 /\ region.y_end = first_region.y_end
              THEN MergeRowsLoop(sorted, k + 1, merged_regions,
                                 Append(current_group, region))
              ELSE MergeRowsLoop(sorted, k + 1,
                                 Append(merged_regions,
                                        merge_group(current_group)),
                                 <<region>>)

merge_barcode_regions(regions) ==
    MergeRowsLoop(SortByY(regions), 1, <<>>, <<>>)

(* ---------------- merge_regions_if_y_matches, lib.rs:373-412 ----------- *)
\* MergeYLoop comparing with the first region of the group, not the last
RECURSIVE MergeYLoopFirst(_, _, _, _)
MergeYLoopFirst(sorted, k, merged_regions, current_group) ==
    IF k > Len(sorted)
    THEN IF current_group # <<>>
         THEN Append(merged_regions, merge_group(current_group))
         ELSE merged_regions
    ELSE LET region == sorted[k] IN
         IF current_group = <<>>
         THEN MergeYLoopFirst(sorted, k + 1, merged_regions, <<region>>)
         ELSE LET first_region == current_group[1] IN
              IF first_region.y_end = region.y_start
              THEN MergeYLoopFirst(sorted, k + 1, merged_regions,
                                   Append(current_group, region))
              ELSE MergeYLoopFirst(sorted, k + 1,
                                   Append(merged_regions,
                                          merge_group(current_group)),
                                   <<region>>)

\* MergeYLoop taking y_end for the last row of a region: it joins a region
\* to the group where last_region.y_end + 1 == region.y_start
RECURSIVE MergeYLoopInclusiveEnd(_, _, _, _)
MergeYLoopInclusiveEnd(sorted, k, merged_regions, current_group) ==
    IF k > Len(sorted)
    THEN IF current_group # <<>>
         THEN Append(merged_regions, merge_group(current_group))
         ELSE merged_regions
    ELSE LET region == sorted[k] IN
         IF current_group = <<>>
         THEN MergeYLoopInclusiveEnd(sorted, k + 1, merged_regions,
                                     <<region>>)
         ELSE LET last_region == current_group[Len(current_group)] IN
              IF last_region.y_end + 1 = region.y_start
              THEN MergeYLoopInclusiveEnd(sorted, k + 1, merged_regions,
                                          Append(current_group, region))
              ELSE MergeYLoopInclusiveEnd(sorted, k + 1,
                                          Append(merged_regions,
                                                 merge_group(current_group)),
                                          <<region>>)

\* the loop over the drained vector, from element k on
RECURSIVE MergeYLoop(_, _, _, _)
MergeYLoop(sorted, k, merged_regions, current_group) ==
    IF k > Len(sorted)
    THEN IF current_group # <<>>
         THEN Append(merged_regions, merge_group(current_group))
         ELSE merged_regions
    ELSE LET region == sorted[k] IN
         IF current_group = <<>>
         THEN MergeYLoop(sorted, k + 1, merged_regions, <<region>>)
         ELSE LET last_region == current_group[Len(current_group)] IN
              IF last_region.y_end = region.y_start
              THEN MergeYLoop(sorted, k + 1, merged_regions,
                              Append(current_group, region))
              ELSE MergeYLoop(sorted, k + 1,
                              Append(merged_regions,
                                     merge_group(current_group)),
                              <<region>>)

merge_regions_if_y_matches(regions) ==
    MergeYLoop(SortByY(regions), 1, <<>>, <<>>)

(* ---------------- adjust_regions, lib.rs:488-496 ----------------------- *)
\* u32 arithmetic.  With the coordinates explored here only `x_end -= 25` can
\* leave the u32 range.  A build with overflow checks panics there; one
\* without wraps to 2^32 + x_end - 25, which is held as the negative number
\* x_end - 25 (the same 32 bits read as an i32, the width of TLC's integers).
SubOverflows(r) == r.x_end < 25

\* adjust_region with y_end assigned before y_start
adjust_regionReordered(r, h) ==
    [x_start |-> r.x_start + 25,
     x_end |-> r.x_end - 25,
     y_start |-> Min(r.y_end + 50, h) + 4,
     y_end |-> Min(r.y_end + 50, h)]

adjust_region(r, h) ==
    [x_start |-> r.x_start + 25,
     x_end |-> r.x_end - 25,
     y_start |-> r.y_end + 4,
     y_end |-> Min(r.y_end + 50, h)]

adjust_regions(regions, h) ==
    [i \in DOMAIN regions |-> adjust_region(regions[i], h)]

(* ---------------- inputs explored -------------------------------------- *)
ConstantImage(v) == [bg |-> v, bands |-> [s \in 0..(MaxStrips - 1) |-> NoBand]]

\* bars over the cells 94..99, up to the right edge of the grid
RightBand(sw) ==
    [x0 |-> 94 * sw, x1 |-> 100 * sw, g0 |-> 0, g1 |-> 0, period |-> 1]
\* bars over the cells 10..21 with cell 15 left blank: runs of 5 and 6 cells
HoleBand(sw) ==
    [x0 |-> 10 * sw, x1 |-> 22 * sw, g0 |-> 15 * sw, g1 |-> 16 * sw,
     period |-> 1]
\* bars over 4 cells only, bars 11 pixels wide, bars not aligned to the grid
ShortBand(sw) ==
    [x0 |-> 0, x1 |-> 4 * sw, g0 |-> 0, g1 |-> 0, period |-> 1]
WideBarsBand(sw) ==
    [x0 |-> 94 * sw, x1 |-> 100 * sw, g0 |-> 0, g1 |-> 0, period |-> 11]
ShiftedBand(sw) ==
    [x0 |-> 30 * sw + 7, x1 |-> 40 * sw + 7, g0 |-> 0, g1 |-> 0,
     period |-> 1]

\* bars over CONSECUTIVE_THRESHOLD * sw columns starting half a cell in
HalfCellBand(sw) ==
    [x0 |-> sw \div 2, x1 |-> sw \div 2 + CONSECUTIVE_THRESHOLD * sw,
     g0 |-> 0, g1 |-> 0, period |-> 1]

Heights ==
    {k * SECTION_HEIGHT + d :
        k \in 0..MaxStrips, d \in {0, SECTION_HEIGHT - 1}} \ {0}
TallHeights ==
    {MaxStrips * SECTION_HEIGHT, MaxStrips * SECTION_HEIGHT + 4}
NarrowWidths == {99, 100, 1000, 1100}
PortraitDims == {<<4, 4>>, <<59, 60>>, <<60, 60>>, <<61, 64>>}

\* <<width, height, image, pixels.len()>>
ConstantInputs ==
    {<<d[1], d[2], ConstantImage(v), d[1] * d[2] + e>> :
        d \in (NarrowWidths \X Heights) \cup PortraitDims,
        v \in {0, 128, 129, 255}, e \in {-1, 0, 1}}
    \cup
    {<<10200, h, ConstantImage(v), 10200 * h>> :
        h \in TallHeights, v \in {0, 255}}

\* 10200 columns: sections of 102 pixels.  The strips in R hold the bars
\* p[1], the other strips p[2].
StripedInputs ==
    {<<10200, MaxStrips * SECTION_HEIGHT,
       [bg |-> 255,
        bands |-> [s \in 0..(MaxStrips - 1) |->
                      IF s \in R THEN p[1] ELSE p[2]]],
       10200 * MaxStrips * SECTION_HEIGHT>> :
        R \in SUBSET (0..(MaxStrips - 1)),
        p \in {<<RightBand(102), NoBand>>, <<HoleBand(102), NoBand>>,
               <<RightBand(102), HoleBand(102)>>}}

\* every strip holds the same bars; 10000 columns: sections of 100 pixels;
\* 10250 columns: sections of 102 pixels and 50 columns outside the grid
UniformInputs ==
    {<<10200, h, [bg |-> v, bands |-> [s \in 0..(MaxStrips - 1) |-> b]],
       10200 * h>> :
        h \in TallHeights, v \in {0, 255},
        b \in {ShortBand(102), WideBarsBand(102), ShiftedBand(102)}}
    \cup
    {<<w, MaxStrips * SECTION_HEIGHT,
       [bg |-> 255,
        bands |-> [s \in 0..(MaxStrips - 1) |->
                      RightBand(w \div HORIZONTAL_SECTIONS)]],
       w * MaxStrips * SECTION_HEIGHT>> :
        w \in {10000, 10250}}

\* 12 strips, bars in strip 0 only
TallInputs ==
    {<<10200, 60,
       [bg |-> 255,
        bands |-> [s \in 0..(MaxStrips - 1) |->
                      IF s = 0 THEN RightBand(102) ELSE NoBand]],
       10200 * 60>>}

\* 1000 columns: sections of 10 pixels; every row alternates 0, 255, 0, ...
\* over its whole width
AlternatingInputs ==
    {<<1000, h,
       [bg |-> 255,
        bands |-> [s \in 0..(MaxStrips - 1) |->
                      [x0 |-> 0, x1 |-> 1000, g0 |-> 0, g1 |-> 0,
                       period |-> 1]]],
       1000 * h>> : h \in {SECTION_HEIGHT, 2 * SECTION_HEIGHT + 4}}
    \cup
    \* one strip; sections of 101 pixels with bars over the cells 94..99, and
    \* sections of 102 pixels with bars over 5 * 102 columns from column 51
    {<<10100, SECTION_HEIGHT,
       [bg |-> 255, bands |-> [s \in 0..(MaxStrips - 1) |-> RightBand(101)]],
       10100 * SECTION_HEIGHT>>,
     <<10200, SECTION_HEIGHT,
       [bg |-> 255, bands |-> [s \in 0..(MaxStrips - 1) |-> HalfCellBand(102)]],
       10200 * SECTION_HEIGHT>>}

Inputs ==
    ConstantInputs \cup StripedInputs \cup UniformInputs \cup TallInputs
        \cup AlternatingInputs

(* ---------------- the pipeline ----------------------------------------- *)
\* no call of the filter is followed on its own
FilterIdle ==
    /\ filter_line = <<>>
    /\ filter_max_width = MAX_WHITE_BLACK_WIDTH
    /\ rejected = FALSE

Init ==
    /\ pc = "from_vec"
    /\ FilterIdle
    /\ \E inp \in Inputs :
          /\ width = inp[1]
          /\ height = inp[2]
          /\ img = inp[3]
          /\ pixels_len = inp[4]
    /\ section_index_y = 0
    /\ section_magnitudes = <<>>
    /\ candidates = <<>>
    /\ barcode_regions = <<>>
    /\ returned = <<>>

\* lib.rs:52-53: ImageBuffer::from_vec returns None when the vector is
\* shorter than width*height, and expect() then panics; a longer vector is
\* accepted.
FromVec ==
    /\ pc = "from_vec"
    /\ pc' = IF pixels_len < width * height THEN "panicked" ELSE "strips"
    /\ UNCHANGED <<width, height, pixels_len, img, section_index_y,
                   section_magnitudes, candidates, barcode_regions, returned>>
    /\ UNCHANGED filterVars

\* lib.rs:67-86: one iteration of the loop over the strips
Strip ==
    /\ pc = "strips"
    /\ section_index_y < sections_per_height(height)
    /\ LET section_y_start == section_index_y * SECTION_HEIGHT
           sw == section_width(width, height)
       IN IF sw = 0 \/ ~ReadsInBounds(width, height, section_y_start)
          THEN \* binary_line[0] of an empty line, or get_pixel out of bounds
               /\ pc' = "panicked"
               /\ UNCHANGED <<section_index_y, section_magnitudes,
                              barcode_regions>>
          ELSE \E mags \in compute_section_magnitudes(
                              img, section_y_start, sw,
                              sections_per_width(width, height)) :
               /\ section_magnitudes' = mags
               /\ barcode_regions' =
                     detect_regions(mags, section_y_start, sw, barcode_regions)
               /\ section_index_y' = section_index_y + 1
               /\ pc' = pc
    /\ UNCHANGED <<width, height, pixels_len, img, candidates, returned>>
    /\ UNCHANGED filterVars

\* lib.rs:88-89: the loop is over; merge_barcode_regions
MergeRows ==
    /\ pc = "strips"
    /\ section_index_y >= sections_per_height(height)
    /\ candidates' = barcode_regions
    /\ LET merged_regions == merge_barcode_regions(barcode_regions)
       IN IF Panics(merged_regions)
          THEN pc' = "panicked" /\ UNCHANGED barcode_regions
          ELSE pc' = "merge_y" /\ barcode_regions' = merged_regions
    /\ UNCHANGED <<width, height, pixels_len, img, section_index_y,
                   section_magnitudes, returned>>
    /\ UNCHANGED filterVars

\* lib.rs:91-94: merge_regions_if_y_matches, and the vector is returned
MergeY ==
    /\ pc = "merge_y"
    /\ LET merged_regions == merge_regions_if_y_matches(barcode_regions)
       IN IF Panics(merged_regions)
          THEN pc' = "panicked" /\ UNCHANGED <<barcode_regions, returned>>
          ELSE /\ pc' = "returned"
               /\ barcode_regions' = merged_regions
               /\ returned' = merged_regions
    /\ UNCHANGED <<width, height, pixels_len, img, section_index_y,
                   section_magnitudes, candidates>>
    /\ UNCHANGED filterVars

\* lib.rs:126-131: detect_character_regions adjusts the returned vector
Adjust ==
    /\ pc = "returned"
    /\ \/ /\ \E i \in DOMAIN barcode_regions : SubOverflows(barcode_regions[i])
          /\ pc' = "panicked"
          /\ UNCHANGED barcode_regions
       \/ /\ barcode_regions' = adjust_regions(barcode_regions, height)
          /\ pc' = "done"
    /\ UNCHANGED <<width, height, pixels_len, img, section_index_y,
                   section_magnitudes, candidates, returned>>
    /\ UNCHANGED filterVars

Next == FromVec \/ Strip \/ MergeRows \/ MergeY \/ Adjust

Spec == Init /\ [][Next]_vars

(* ---------------- the run detector on any magnitude sequence ----------- *)
\* longest magnitude sequence explored
MaxCells == 12

SeqsUpTo(S, n) == UNION {[1..k -> S] : k \in 0..n}

\* detect_regions on a vector already holding the regions of a strip above
PriorRegions == {<<>>, <<BarcodeRegion(0, 15, 0, 5)>>}

InitRun ==
    /\ pc = "detect"
    /\ FilterIdle
    /\ width = 300
    /\ height = 10
    /\ pixels_len = width * height
    /\ img = ConstantImage(0)
    /\ section_magnitudes \in SeqsUpTo({0, 1}, MaxCells)
    /\ \E s \in 0..1 :
          /\ section_index_y = s
          /\ barcode_regions \in (IF s = 0 THEN {<<>>} ELSE PriorRegions)
    /\ candidates = barcode_regions
    /\ returned = <<>>

\* lib.rs:80-85: the call of detect_regions for strip section_index_y
RunDetector ==
    /\ pc = "detect"
    /\ barcode_regions' =
          detect_regions(section_magnitudes,
                         section_index_y * SECTION_HEIGHT,
                         section_width(width, height), barcode_regions)
    /\ pc' = "detected"
    /\ UNCHANGED <<width, height, pixels_len, img, section_index_y,
                   section_magnitudes, candidates, returned>>
    /\ UNCHANGED filterVars

SpecRun == InitRun /\ [][RunDetector]_vars

(* ---------------- the merge passes on any list of regions -------------- *)
\* longest list of regions explored
MaxRegions == 3

RegionUniverse ==
    {BarcodeRegion(10, 20, 50, 60), BarcodeRegion(21, 30, 50, 60),
     BarcodeRegion(10, 20, 0, 5), BarcodeRegion(15, 25, 5, 10),
     BarcodeRegion(30, 40, 20, 25), BarcodeRegion(21, 30, 0, 5),
     BarcodeRegion(30, 40, 5, 10), BarcodeRegion(10, 20, 0, 10),
     BarcodeRegion(15, 25, 10, 20)}

InitLists(start) ==
    /\ pc = start
    /\ FilterIdle
    /\ width = 100
    /\ height \in {60, 120}
    /\ pixels_len = width * height
    /\ img = ConstantImage(0)
    /\ section_index_y = sections_per_height(height)
    /\ section_magnitudes = <<>>
    /\ barcode_regions \in SeqsUpTo(RegionUniverse, MaxRegions)
    /\ candidates = barcode_regions
    /\ returned = <<>>

\* merge_barcode_regions, merge_regions_if_y_matches and adjust_regions in
\* the order of the pipeline, from any list of candidates
InitMerge == InitLists("strips")
NextMerge == MergeRows \/ MergeY \/ Adjust
SpecMerge == InitMerge /\ [][NextMerge]_vars

\* merge_regions_if_y_matches on any list
InitMergeY == InitLists("merge_y")
NextMergeY == MergeY \/ Adjust
SpecMergeY == InitMergeY /\ [][NextMergeY]_vars

\* either merge pass on any list: the pipeline entered at
\* merge_barcode_regions or at merge_regions_if_y_matches
InitMergeAny == InitMerge \/ InitMergeY
SpecMergeAny == InitMergeAny /\ [][NextMerge]_vars

(* ---------------- the uniformity filter on any binary line ------------- *)
\* longest binary line explored
MaxLine == 12

\* the values of max_width explored: small ones and the one the pipeline uses
FilterWidths == {1, 2, 3, MAX_WHITE_BLACK_WIDTH}

InitFilter ==
    /\ pc = "filter"
    /\ width = 1200
    /\ height = 5
    /\ pixels_len = width * height
    /\ img = ConstantImage(0)
    /\ section_index_y = 0
    /\ section_magnitudes = <<>>
    /\ candidates = <<>>
    /\ barcode_regions = <<>>
    /\ returned = <<>>
    /\ filter_line \in SeqsUpTo({0, 1}, MaxLine) \ {<<>>}
    /\ filter_max_width \in FilterWidths
    /\ rejected = FALSE

\* lib.rs:165-188 for one cell: the call of the filter on the cell's binary
\* line and, where max_width is the pipeline's MAX_WHITE_BLACK_WIDTH, the
\* magnitude pushed for the cell
FilterCell ==
    /\ pc = "filter"
    /\ rejected' = contains_large_white_black_regions(filter_line,
                                                       filter_max_width)
    /\ IF filter_max_width = MAX_WHITE_BLACK_WIDTH
       THEN \E m \in MagnitudeOutcomes(filter_line) :
                section_magnitudes' = <<m>>
       ELSE UNCHANGED section_magnitudes
    /\ pc' = "filtered"
    /\ UNCHANGED <<width, height, pixels_len, img, section_index_y,
                   candidates, barcode_regions, returned,
                   filter_line, filter_max_width>>

SpecFilter == InitFilter /\ [][FilterCell]_vars

(* ======================= properties ==================================== *)
ValidBuffer == pixels_len = width * height

NonDegenerate ==
    section_width(width, height) > 0 /\ sections_per_height(height) > 0

\* detect_barcode_regions or detect_character_regions has ended, by a
\* panic or by returning a vector of regions
Ended == pc \in {"panicked", "returned", "done"}

\* C1: for a buffer of width*height pixels and a non-degenerate geometry,
\* every region of the list detect_barcode_regions returns has
\* x_start <= x_end <= width and y_start <= y_end <= height.
C1_RegionsWithinImage ==
    (pc = "returned" /\ ValidBuffer /\ NonDegenerate) =>
        \A i \in DOMAIN barcode_regions :
            LET r == barcode_regions[i] IN
            /\ 0 <= r.x_start /\ r.x_start <= r.x_end /\ r.x_end <= width
            /\ 0 <= r.y_start /\ r.y_start <= r.y_end /\ r.y_end <= height

\* a returned region, merged from several candidates, touching the right and
\* the bottom edge of the image
C1_Witness ==
    /\ pc = "returned" /\ ValidBuffer /\ NonDegenerate
    /\ Len(candidates) > Len(barcode_regions)
    /\ \E i \in DOMAIN barcode_regions :
          barcode_regions[i].x_end = width /\ barcode_regions[i].y_end = height

\* C2: when the buffer length differs from width*height the call ends in an
\* InvalidBuffer error: it neither panics nor returns a list of regions.
C2_InvalidBufferIsAnError == ~ValidBuffer => ~Ended

\* C3: when section_width or sections_per_height is 0 the call ends in a
\* DegenerateGeometry error: it neither panics nor returns a (necessarily
\* empty) list of regions.
C3_DegenerateGeometryIsAnError == (ValidBuffer /\ ~NonDegenerate) => ~Ended

(* ---------------- the run detector ------------------------------------- *)
\* the k-th smallest element of a finite set of integers
NthOf(Q, k) == CHOOSE i \in Q : Cardinality({j \in Q : j < i}) = k - 1

\* the cell indices (from 0) at which the claim has a region emitted: the
\* cell and the CONSECUTIVE_THRESHOLD - 1 cells before it are all > 0
EmittingCells(mags) ==
    {i \in 0..(Len(mags) - 1) :
        /\ i + 1 >= CONSECUTIVE_THRESHOLD
        /\ \A j \in (i + 2 - CONSECUTIVE_THRESHOLD)..(i + 1) : mags[j] > 0}

\* the first cell of the maximal run of cells > 0 that contains cell i
RunStartOf(mags, i) ==
    CHOOSE s \in 0..i :
        /\ \A j \in s..i : mags[j + 1] > 0
        /\ s = 0 \/ mags[s] = 0

\* C4: detect_regions appends, in the order of the cells, exactly one region
\* for each cell i that is > 0 and ends a run of at least
\* CONSECUTIVE_THRESHOLD cells > 0, and nothing else; that region spans
\* x_start = s*section_width (s the first cell of the run) to
\* x_end = (i+1)*section_width and the strip's rows.
C4_RunDetector ==
    pc = "detected" =>
        LET Q == EmittingCells(section_magnitudes)
            sw == section_width(width, height)
            y == section_index_y * SECTION_HEIGHT
        IN barcode_regions = candidates \o
             [k \in 1..Cardinality(Q) |->
                 BarcodeRegion(RunStartOf(section_magnitudes, NthOf(Q, k)) * sw,
                               (NthOf(Q, k) + 1) * sw, y, y + SECTION_HEIGHT)]

\* [1,1,1,1,1,0,1,1,1,1,1,1]: regions at the cells 4, 10 and 11
C4_Witness ==
    /\ pc = "detected"
    /\ section_magnitudes = <<1, 1, 1, 1, 1, 0, 1, 1, 1, 1, 1, 1>>
    /\ candidates = <<>>
    /\ section_index_y = 1
    /\ barcode_regions = <<BarcodeRegion(0, 15, 5, 10),
                           BarcodeRegion(18, 33, 5, 10),
                           BarcodeRegion(18, 36, 5, 10)>>

(* ---------------- the merge passes ------------------------------------- *)
RangeOf(s) == {s[i] : i \in DOMAIN s}
KeyOf(r) == <<r.y_start, r.y_end>>
SetMin(S) == CHOOSE m \in S : \A x \in S : m <= x
SetMax(S) == CHOOSE m \in S : \A x \in S : m >= x

\* C5: merge_barcode_regions returns exactly one region for each distinct
\* (y_start, y_end) of its input, with that pair, the least x_start and the
\* greatest x_end of the regions having the pair, in ascending order of
\* (y_start, y_end).
C5_SameRowMerge ==
    pc = "merge_y" =>
        LET keys == {KeyOf(r) : r \in RangeOf(candidates)}
            group(k) == {r \in RangeOf(candidates) : KeyOf(r) = k}
        IN /\ Len(barcode_regions) = Cardinality(keys)
           /\ \A i \in DOMAIN barcode_regions :
                 LET r == barcode_regions[i] IN
                 /\ KeyOf(r) \in keys
                 /\ r.x_start = SetMin({g.x_start : g \in group(KeyOf(r))})
                 /\ r.x_end = SetMax({g.x_end : g \in group(KeyOf(r))})
           /\ \A i, j \in DOMAIN barcode_regions :
                 i < j => KeyLess(barcode_regions[i], barcode_regions[j])

\* {(10,20,50,60), (21,30,50,60)} gives {(10,30,50,60)}
C5_Witness ==
    /\ pc = "merge_y"
    /\ candidates = <<BarcodeRegion(10, 20, 50, 60),
                      BarcodeRegion(21, 30, 50, 60)>>
    /\ barcode_regions = <<BarcodeRegion(10, 30, 50, 60)>>

\* the arrangement of a list in ascending (y_start, y_end), equal keys in
\* their order of arrival
SortedArrangement(list) ==
    LET n == Len(list)
        p == CHOOSE q \in [1..n -> 1..n] :
                /\ \A i, j \in 1..n : i # j => q[i] # q[j]
                /\ \A i, j \in 1..n : i < j =>
                      \/ KeyLess(list[q[i]], list[q[j]])
                      \/ KeyOf(list[q[i]]) = KeyOf(list[q[j]]) /\ q[i] < q[j]
    IN [i \in 1..n |-> list[p[i]]]

\* C6: merge_regions_if_y_matches sorts its input by (y_start, y_end) and
\* turns each maximal run of consecutive regions, each starting at the
\* y_end of the one before, into one region: least x_start and greatest
\* x_end of the run, y_start of its first and y_end of its last region.
\* Nothing is asked of the x ranges.
C6_VerticalMerge ==
    pc = "returned" =>
        LET s == SortedArrangement(candidates)
            n == Len(s)
            starts == {i \in 1..n : i = 1 \/ s[i].y_start # s[i - 1].y_end}
            endOf(b) == SetMin({e \in b..n : e = n \/ (e + 1) \in starts})
        IN returned =
             [k \in 1..Cardinality(starts) |->
                LET b == NthOf(starts, k)
                    e == endOf(b)
                IN BarcodeRegion(SetMin({s[i].x_start : i \in b..e}),
                                 SetMax({s[i].x_end : i \in b..e}),
                                 s[b].y_start, s[e].y_end)]

\* {(10,20,0,5), (15,25,5,10), (30,40,20,25)} gives
\* {(10,25,0,10), (30,40,20,25)}
C6_Witness ==
    /\ pc = "returned"
    /\ candidates = <<BarcodeRegion(30, 40, 20, 25),
                      BarcodeRegion(10, 20, 0, 5),
                      BarcodeRegion(15, 25, 5, 10)>>
    /\ returned = <<BarcodeRegion(10, 25, 0, 10),
                    BarcodeRegion(30, 40, 20, 25)>>

\* C7: merge_barcode_regions applied to its own output returns that output.
C7_SameRowMergeIdempotent ==
    pc = "merge_y" => merge_barcode_regions(barcode_regions) = barcode_regions

\* an output of two merged rows, one of them merged from two candidates
C7_Witness ==
    /\ pc = "merge_y"
    /\ Len(candidates) = 3
    /\ Len(barcode_regions) = 2

\* the lists holding the same regions as list, in every order
ArrivalOrders(list) ==
    LET n == Len(list) IN
    {[i \in 1..n |-> list[q[i]]] :
        q \in {f \in [1..n -> 1..n] : \A i, j \in 1..n : i # j => f[i] # f[j]}}

\* C8: the list returned after the two merge passes is the same for every
\* order in which the same candidate regions arrive.
C8_ArrivalOrderIrrelevant ==
    pc = "returned" =>
        \A q \in ArrivalOrders(candidates) :
            merge_regions_if_y_matches(merge_barcode_regions(q)) = returned

\* candidates arriving out of (y_start, y_end) order, some of them merged
C8_Witness ==
    /\ pc = "returned"
    /\ Len(candidates) = 3
    /\ KeyLess(candidates[3], candidates[1])
    /\ KeyLess(candidates[2], candidates[3])
    /\ Len(returned) = 2

(* ---------------- whole images ----------------------------------------- *)
IsConstantImage ==
    \A s \in DOMAIN img.bands : img.bands[s].x0 >= img.bands[s].x1

\* C9: on an image of one intensity (valid buffer, non-degenerate geometry)
\* every section magnitude is 0, no strip yields a candidate region and
\* detect_barcode_regions returns an empty list.
C9_UniformImageNoRegions ==
    (IsConstantImage /\ ValidBuffer /\ NonDegenerate) =>
        /\ \A c \in DOMAIN section_magnitudes : section_magnitudes[c] = 0
        /\ candidates = <<>>
        /\ barcode_regions = <<>>
        /\ pc # "panicked"

\* a white image with sections of 10 pixels (lines the uniformity filter lets
\* through to the transform), after detect_barcode_regions has returned
C9_Witness ==
    /\ pc = "returned" /\ IsConstantImage /\ ValidBuffer
    /\ img.bg = 255
    /\ width = 1000
    /\ sections_per_height(height) >= 2
    /\ Len(section_magnitudes) = HORIZONTAL_SECTIONS

C11_AdjustedWithinImage ==
    (pc = "done" /\ ValidBuffer) =>
        \A i \in DOMAIN barcode_regions :
            LET r == barcode_regions[i] IN
            /\ r.y_start <= r.y_end /\ r.y_end <= height
            /\ 0 <= r.x_end /\ r.x_end <= width
            /\ r.x_start > r.x_end =>
                  returned[i].x_end - returned[i].x_start < 50

\* a < b for two u32 values held as the i32 of the same bits: a negative
\* number stands for a value of 2^31 or more
U32Less(a, b) ==
    IF (a < 0) = (b < 0) THEN a < b ELSE b < 0

Narrow(r) == r.x_end - r.x_start < 50

C13_ReadsInsideImage ==
    /\ \A s \in 0..(section_index_y - 1) :
          \A c \in 0..(Len(section_magnitudes) - 1) :
              LET sw == width \div Len(section_magnitudes)
                  x0 == c * sw
                  y0 == s * SECTION_HEIGHT
              IN x0 + sw <= width /\ y0 + SECTION_HEIGHT \div 2 < height
    /\ pc = "panicked" =>
          pixels_len < width * height \/ section_width(width, height) = 0

\* all 12 strips of a 61 x 64 image read, one column and four rows left over
C13_Witness ==
    /\ pc = "merge_y" /\ ValidBuffer
    /\ width = 61 /\ height = 64
    /\ section_index_y = 12
    /\ Len(section_magnitudes) = VERTICAL_SECTIONS

\* The grid as the run of the pipeline shows it, for a strip height given as
\* a number: cells_per_row magnitudes per strip, 60 when width <= height and
\* 100 otherwise; floor(height / strip_height) strips iterated; every
\* candidate region on the cell grid of cell_width = floor(width /
\* cells_per_row) columns and on one strip, inside the sampled area.
GridPartition(strip_height) ==
    LET cells_per_row == IF width <= height THEN 60 ELSE 100
        cell_width == width \div cells_per_row
        strip_count == height \div strip_height
    IN /\ section_index_y <= strip_count
       /\ pc \in {"merge_y", "returned", "done"} =>
             section_index_y = strip_count
       /\ section_index_y > 0 => Len(section_magnitudes) = cells_per_row
       /\ pc = "strips" =>
             \A i \in DOMAIN barcode_regions :
                 LET r == barcode_regions[i] IN
                 /\ r.x_start % cell_width = 0 /\ r.x_end % cell_width = 0
                 /\ r.x_end <= cells_per_row * cell_width
                 /\ r.y_start % strip_height = 0
                 /\ r.y_end = r.y_start + strip_height
                 /\ r.y_end <= strip_count * strip_height

\* C14 as amended: the grid has 60 cells per row when width <= height and
\* 100 when width > height, cell_width = floor(width / cells_per_row),
\* strips of 5 rows and floor(height / 5) strips, so a trailing strip shorter
\* than 5 rows and the rightmost width mod cells_per_row columns are never
\* sampled.
C14_GridPartition == GridPartition(5)

\* candidates found in an image whose last 4 rows belong to no strip
C14_Witness ==
    /\ pc = "merge_y" /\ ValidBuffer
    /\ height % 5 = 4
    /\ section_index_y = height \div 5
    /\ candidates # <<>>

\* C14 as stated: the same grid with strips of 50 rows and
\* floor(height / 50) strips.
C14_GridPartitionStrip50 == GridPartition(50)

(* ---------------- the uniformity filter -------------------------------- *)
\* the length of the longest run of equal consecutive values of a line
LongestRun(line) ==
    SetMax({n \in 1..Len(line) :
               \E i \in 1..(Len(line) - n + 1) :
                   \A k \in i..(i + n - 1) : line[k] = line[i]})

\* C15: for a non-empty binary line and max_width >= 1,
\* contains_large_white_black_regions returns true if and only if the
\* longest run of equal consecutive values is strictly longer than
\* max_width, wherever the run lies; and a cell whose line it rejects gets
\* the magnitude 0.
C15_UniformityFilter ==
    pc = "filtered" =>
        /\ rejected <=> LongestRun(filter_line) > filter_max_width
        /\ (rejected /\ filter_max_width = MAX_WHITE_BLACK_WIDTH) =>
               section_magnitudes = <<0>>

\* a run longer than max_width at the very end of the line, and no other
C15_Witness ==
    /\ pc = "filtered"
    /\ filter_line = <<0, 1, 0, 1, 1, 1>>
    /\ filter_max_width = 2
    /\ rejected

(* ---------------- alternating lines ------------------------------------ *)
\* the sampled row of some iterated strip alternates 0, 255, 0, 255, ...
\* pixel by pixel over at least CONSECUTIVE_THRESHOLD * section_width columns
AlternatingStretch ==
    /\ section_width(width, height) > 0
    /\ \E s \in DOMAIN img.bands :
          LET b == img.bands[s] IN
          /\ s < sections_per_height(height)
          /\ b.period = 1 /\ b.g0 >= b.g1
          /\ 0 <= b.x0 /\ b.x1 <= width
          /\ b.x1 - b.x0 >=
                CONSECUTIVE_THRESHOLD * section_width(width, height)

\* C16 as stated: on an image with such a stretch detect_barcode_regions
\* returns at least one region, and its regions have x_start < x_end and
\* y_start < y_end.
C16_AlternatingLineDetected ==
    (pc = "returned" /\ ValidBuffer /\ AlternatingStretch) =>
        /\ returned # <<>>
        /\ \A i \in DOMAIN returned :
              /\ returned[i].x_start < returned[i].x_end
              /\ returned[i].y_start < returned[i].y_end

\* sections of at least 101 pixels, and the sampled row of some iterated
\* strip alternates pixel by pixel over CONSECUTIVE_THRESHOLD consecutive
\* whole cells c .. c + CONSECUTIVE_THRESHOLD - 1 of the grid
AlternatingCells ==
    LET sw == section_width(width, height)
        spw == sections_per_width(width, height)
    IN /\ sw >= 101
       /\ \E s \in DOMAIN img.bands :
             LET b == img.bands[s] IN
             /\ s < sections_per_height(height)
             /\ b.period = 1
             /\ \E c \in 0..(spw - CONSECUTIVE_THRESHOLD) :
                   /\ b.x0 <= c * sw
                   /\ (c + CONSECUTIVE_THRESHOLD) * sw <= b.x1
                   /\ \/ b.g0 >= b.g1
                      \/ b.g1 <= c * sw
                      \/ b.g0 >= (c + CONSECUTIVE_THRESHOLD) * sw

\* C16 as amended: where the sections are at least 101 pixels wide and the
\* sampled row of some iterated strip alternates 0, 255, 0, 255, ... over
\* CONSECUTIVE_THRESHOLD consecutive whole cells, detect_barcode_regions
\* returns at least one region, and its regions have x_start < x_end and
\* y_start < y_end.
C16_AlternatingCellsDetected ==
    (pc = "returned" /\ ValidBuffer /\ AlternatingCells) =>
        /\ returned # <<>>
        /\ \A i \in DOMAIN returned :
              /\ returned[i].x_start < returned[i].x_end
              /\ returned[i].y_start < returned[i].y_end

\* sections of 101 pixels: the narrowest whose alternating line is kept
C16_Witness ==
    /\ pc = "returned" /\ ValidBuffer /\ AlternatingCells
    /\ section_width(width, height) = 101
    /\ returned = <<BarcodeRegion(94 * 101, 100 * 101, 0, SECTION_HEIGHT)>>

(* ---------------- no detections ---------------------------------------- *)
\* C17: an empty candidate list goes through both merge passes as an empty
\* list, without a panic; and no run of either merge pass, on any list,
\* calls merge_group with an empty group: the only panic left is the one of
\* adjust_regions, on a non-empty returned list.
C17_NoDetectionsIsNormal ==
    /\ candidates = <<>> =>
          /\ barcode_regions = <<>>
          /\ returned = <<>>
          /\ pc # "panicked"
    /\ pc = "panicked" => returned # <<>>

\* the empty list returned after both merge passes
C17_Witness ==
    /\ pc = "returned"
    /\ candidates = <<>>
    /\ returned = <<>>

(* ---------------- the returned list ------------------------------------ *)
\* C18: in the list detect_barcode_regions returns, each region ends above
\* the start of the next one: for consecutive regions r then s,
\* r.y_start < s.y_start and r.y_end < s.y_start, so no two regions overlap
\* vertically, share a strip or touch.
C18_VerticallySeparated ==
    pc = "returned" =>
        \A i \in 1..(Len(returned) - 1) :
            /\ returned[i].y_start < returned[i + 1].y_start
            /\ returned[i].y_end < returned[i + 1].y_start

\* two regions returned, each merged from the candidates of one strip, the
\* strip between them without a detection
C18_Witness ==
    /\ pc = "returned"
    /\ Len(candidates) >= 4
    /\ Len(returned) = 2
    /\ returned[2].y_start = returned[1].y_end + SECTION_HEIGHT

\* the x range and the y range of region c lie within those of region r
Contains(r, c) ==
    /\ r.x_start <= c.x_start /\ c.x_end <= r.x_end
    /\ r.y_start <= c.y_start /\ c.y_end <= r.y_end

\* C19: every candidate region the strips have pushed is contained, in x
\* and in y, in exactly one region of the list returned after the two merge
\* passes; the returned list is not longer than the candidate list, and it
\* is empty only if the candidate list is.
C19_MergingKeepsDetections ==
    pc = "returned" =>
        /\ \A c \in DOMAIN candidates :
              Cardinality({j \in DOMAIN returned :
                              Contains(returned[j], candidates[c])}) = 1
        /\ Len(returned) <= Len(candidates)
        /\ returned = <<>> => candidates = <<>>

\* one region returned for the candidates of adjacent strips, reaching
\* further left and further down than the candidates of the first strip
C19_Witness ==
    /\ pc = "returned"
    /\ Len(candidates) >= 4
    /\ Len(returned) = 1
    /\ returned[1].x_start < candidates[1].x_start
    /\ returned[1].y_end > candidates[1].y_end

====
